---- MODULE Spec2Model ----
(***************************************************************************)
(* Market Pulse: the request handler get_market_pulse of src/src/main.py  *)
(* and the TTLCache it shares between requests, as a state machine.       *)
(*                                                                         *)
(* Requests are coroutines on one event loop: a coroutine runs alone from  *)
(* one await to the next (variable cur), the wall clock (variable now)     *)
(* advances at any moment, and the three awaits (price, news, generation)  *)
(* are the only points where another request can run.                      *)
(*                                                                         *)
(* Numbers with two decimals (returns, scores, sentiment) are integers in  *)
(* hundredths.                                                             *)
(***************************************************************************)
EXTENDS Integers, Sequences, FiniteSets, TLC

VARIABLES env, now, cache, req, cur, started, served

vars == <<env, now, cache, req, cur, started, served>>

(***************************************************************************)
(* Bounds of the model                                                     *)
(***************************************************************************)
\* requests accepted in one behaviour of Spec
MaxRequests == 2
\* requests accepted in one behaviour of SpecLoad
MaxLoadRequests == 4
\* steps the clock takes in one behaviour
MaxTicks == 2
\* TTLCache(maxsize=100, ...) scaled down: the capacity the model runs with
maxsize == 2

\* TTLCache(..., ttl=600)
ttl == 600
\* headlines[:5]
TopK == 5
\* rolling(window=20)
SmaWindow == 20
\* the number of daily records of the longest series of the model
LongSeries == SmaWindow + 1
\* the clock advances in steps of half a ttl, so that a lookup can fall
\* before, exactly at, and after an expiry
TickStep == ttl \div 2
\* the clock stops advancing after this many steps
MaxTime == MaxTicks * TickStep

\* the requests that can be in flight at the same time
Reqs == {1, 2}
Providers == {"price", "news", "generation"}
None == [none |-> TRUE]

(***************************************************************************)
(* Configuration (lines 21-25): env is the set of the variables the        *)
(* environment of the process defines                                      *)
(***************************************************************************)
Credentials == {"STOCK_API_KEY", "NEWS_API_KEY", "GOOGLE_API_KEY"}

\* os.getenv(name): the value, or None when the variable is not defined
getenv(e, name) == IF name \in e THEN [none |-> FALSE] ELSE None

\* the module-level names of lines 22-24
STOCK_API_KEY == getenv(env, "STOCK_API_KEY")
NEWS_API_KEY == getenv(env, "NEWS_API_KEY")
GOOGLE_API_KEY == getenv(env, "GOOGLE_API_KEY")

\* the credential the call to a provider is made with: the f-strings of
\* lines 39 and 84, genai.configure of line 25
ApiKey(p) ==
    CASE p = "price" -> STOCK_API_KEY
      [] p = "news" -> NEWS_API_KEY
      [] p = "generation" -> GOOGLE_API_KEY

(***************************************************************************)
(* Tickers: sequences of characters; str.upper() by character              *)
(***************************************************************************)
UpperLetters == {"A", "B", "C", "D"}

UpperCharIdentity(c) == c

UpperChar(c) ==
    CASE c = "a" -> "A"
      [] c = "b" -> "B"
      [] c = "c" -> "C"
      [] c = "d" -> "D"
      [] OTHER -> c

Upper(s) == [i \in 1..Len(s) |-> UpperChar(s[i])]

\* the ticker query parameters the clients send (1 to 10 characters)
TickerInputs == { <<"a", "b">>, <<"A", "B">>, <<"c">>, <<"D">> }

Keys == { Upper(t) : t \in TickerInputs }

(***************************************************************************)
(* cachetools.TTLCache(maxsize, ttl): a sequence of entries                *)
(* [key, value, expires] in least-recently-used order (head = next to be   *)
(* evicted).                                                               *)
(***************************************************************************)
RECURSIVE CacheIndex(_, _)
\* position of the entry of key k, 0 when there is none
CacheIndex(c, k) ==
    IF c = <<>> THEN 0
    ELSE IF c[Len(c)].key = k THEN Len(c)
    ELSE CacheIndex(SubSeq(c, 1, Len(c) - 1), k)

\* `k in cache`: the entry exists and has not expired; nothing is changed
CacheContains(c, k, t) ==
    \E i \in 1..Len(c) : c[i].key = k /\ t < c[i].expires

\* expire(time): drop every entry whose expiry has been reached
CacheExpire(c, t) == SelectSeq(c, LAMBDA e : t < e.expires)

\* the entry of position i becomes the most recently used
MoveToEnd(c, i) ==
    SubSeq(c, 1, i - 1) \o SubSeq(c, i + 1, Len(c)) \o << c[i] >>

\* `cache[k]`: [found, value, cache]; a missing or an expired entry makes
\* the library raise KeyError (found = FALSE); a found link becomes the most
\* recently used one, its value and expiry are untouched
CacheGetItem(c, k, t) ==
    LET i == CacheIndex(c, k) IN
    IF i = 0 THEN [found |-> FALSE, value |-> None, cache |-> c]
    ELSE [found |-> t < c[i].expires,
          value |-> IF t < c[i].expires THEN c[i].value ELSE None,
          cache |-> MoveToEnd(c, i)]

RECURSIVE PopNewest(_)
\* an eviction that removes the most recently used entry
PopNewest(c) ==
    IF Len(c) + 1 > maxsize THEN PopNewest(SubSeq(c, 1, Len(c) - 1)) ELSE c

RECURSIVE PopUntilRoom(_)
\* Cache.__setitem__: while currsize + 1 > maxsize: popitem()
PopUntilRoom(c) ==
    IF Len(c) + 1 > maxsize THEN PopUntilRoom(Tail(c)) ELSE c

\* a store that never evicts
CacheSetItemNoEvict(c, k, v, t) ==
    LET live == CacheExpire(c, t)
        i == CacheIndex(live, k)
        e == [key |-> k, value |-> v, expires |-> t + ttl]
    IN IF i # 0
       THEN SubSeq(live, 1, i - 1) \o SubSeq(live, i + 1, Len(live)) \o << e >>
       ELSE live \o << e >>

\* a store that keeps the entry a key already has
CacheSetItemKeepOld(c, k, v, t) ==
    LET live == CacheExpire(c, t)
        i == CacheIndex(live, k)
        e == [key |-> k, value |-> v, expires |-> t + ttl]
    IN IF i # 0
       THEN live
       ELSE PopUntilRoom(live) \o << e >>

\* `cache[k] = v` at time t: expired entries are purged, a new key evicts
\* from the head while the cache is full, and the entry becomes the most
\* recently used one with expiry t + ttl
CacheSetItem(c, k, v, t) ==
    LET live == CacheExpire(c, t)
        i == CacheIndex(live, k)
        e == [key |-> k, value |-> v, expires |-> t + ttl]
    IN IF i # 0
       THEN SubSeq(live, 1, i - 1) \o SubSeq(live, i + 1, Len(live)) \o << e >>
       ELSE PopUntilRoom(live) \o << e >>

CacheKeys(c) == { c[i].key : i \in 1..Len(c) }

\* the entries without their order of use
CacheEntries(c) == { c[i] : i \in 1..Len(c) }

(***************************************************************************)
(* Arithmetic in hundredths                                                *)
(***************************************************************************)
\* n / d for d > 0, rounded to the nearest integer, ties to even
RoundHalfEven(n, d) ==
    LET q == n \div d
        r == n - q * d
    IN IF 2 * r < d THEN q
       ELSE IF 2 * r > d THEN q + 1
       ELSE IF q % 2 = 0 THEN q ELSE q + 1

RECURSIVE SumSeq(_)
SumSeq(s) == IF s = <<>> THEN 0 ELSE Head(s) + SumSeq(Tail(s))

Abs(x) == IF x < 0 THEN -x ELSE x

Min(a, b) == IF a < b THEN a ELSE b

(***************************************************************************)
(* Price step (lines 38-49) and momentum (lines 51-78)                     *)
(***************************************************************************)
\* "Time Series (Daily)": a set of [date, close] records (a dict by date)
SeriesInputs ==
    { { [date |-> 1, close |-> 150] },
      { [date |-> 1, close |-> 148], [date |-> 2, close |-> 150] },
      { [date |-> 1, close |-> 147], [date |-> 2, close |-> 149],
        [date |-> 3, close |-> 151], [date |-> 4, close |-> 152],
        [date |-> 5, close |-> 148], [date |-> 6, close |-> 150] },
      { [date |-> d, close |-> IF d = LongSeries THEN 110 ELSE 100] :
          d \in 1..LongSeries } }

\* what the price provider can answer
PriceOutcomes ==
    { [kind |-> "request_error", series |-> {}],
      [kind |-> "http_status", series |-> {}],
      [kind |-> "bad_json", series |-> {}],
      [kind |-> "no_series", series |-> {}] }
    \cup { [kind |-> "ok", series |-> s] : s \in SeriesInputs }

\* a handler that swallows a bad HTTP status of the price provider
PriceStatusNoRaise(out) ==
    CASE out.kind = "ok" -> 200
      [] out.kind = "request_error" -> 504
      [] out.kind = "http_status" -> 200
      [] OTHER -> 500

\* the status the try block of lines 38-49 ends with: httpx.RequestError is
\* turned into 504; raise_for_status, json() and the HTTPException(404) of
\* line 45 are all caught by `except Exception` and turned into 500
PriceStatus(out) ==
    CASE out.kind = "ok" -> 200
      [] out.kind = "request_error" -> 504
      [] out.kind = "http_status" -> 500
      [] out.kind = "bad_json" -> 500
      [] out.kind = "no_series" -> 500

RECURSIVE SortDesc(_)
\* df.sort_index(ascending=False): the closes, most recent date first
SortDesc(series) ==
    IF series = {} THEN <<>>
    ELSE LET top == CHOOSE x \in series : \A y \in series : y.date <= x.date
         IN << top.close >> \o SortDesc(series \ {top})

\* pct_change() * 100 of a row against the row before it in the frame, in
\* hundredths of a percent; the first row has none (NaN, dropped by dropna)
PctChange(c) ==
    [i \in 1..(Len(c) - 1) |->
        RoundHalfEven(10000 * (c[i + 1] - c[i]), c[i])]

\* lines 51-78 on the closes sorted most recent first.  ok = FALSE when
\* df[...].iloc[0] raises IndexError on the frame that dropna left empty.
Momentum(c) ==
    LET df == IF c = <<>> THEN <<>> ELSE Tail(c)
        pct == PctChange(c)
        returns == SubSeq(pct, 1, Min(5, Len(pct)))
        simple == IF returns # <<>> THEN SumSeq(returns) ELSE 0
        smaIsNaN == Len(df) >= SmaWindow
        total == SumSeq(df)
    IN IF df = <<>>
       THEN [ok |-> FALSE, returns |-> returns, simple_score |-> simple,
             advanced_score |-> 0]
       ELSE [ok |-> TRUE, returns |-> returns, simple_score |-> simple,
             advanced_score |->
                IF ~smaIsNaN /\ total > 0
                THEN RoundHalfEven(10000 * (df[1] * Len(df) - total), total)
                ELSE 0]

(***************************************************************************)
(* News step (lines 82-112)                                                *)
(***************************************************************************)
\* SentimentIntensityAnalyzer().polarity_scores(text)['compound'], by text
polarity_scores(title) ==
    CASE title = "surges" -> 80
      [] title = "plunges" -> -80
      [] title = "gains" -> 40
      [] OTHER -> 0

\* an element of "articles": a JSON object, or something else (dict = FALSE)
Art(t) == [dict |-> TRUE, title |-> t, url |-> "u"]
Junk == [dict |-> FALSE, title |-> "", url |-> ""]

\* an article with its own url
ArtAt(t, u) == [dict |-> TRUE, title |-> t, url |-> u]

ArticleLists ==
    { <<>>,
      << Art("gains"), Art("plunges") >>,
      << Art("gains"), Junk >>,
      << ArtAt("gains", "u1"), ArtAt("plunges", "u2"), ArtAt("surges", "u3"),
         ArtAt("flat", "u4"), ArtAt("surges", "u5"), ArtAt("plunges", "u6"),
         ArtAt("gains", "u7") >>,
      << ArtAt("flat", "u1"), ArtAt("gains", "u2"), ArtAt("flat", "u3"),
         ArtAt("plunges", "u4"), ArtAt("flat", "u5"), ArtAt("surges", "u6"),
         Junk >> }

NewsOutcomes ==
    { [kind |-> "request_error", articles |-> <<>>],
      [kind |-> "http_status", articles |-> <<>>],
      [kind |-> "no_articles_key", articles |-> <<>>] }
    \cup { [kind |-> "ok", articles |-> a] : a \in ArticleLists }

RECURSIVE InsertByAbsUnstable(_, _)
\* an insertion that puts h before the items of equal |sentiment|
InsertByAbsUnstable(sorted, h) ==
    IF sorted = <<>> THEN << h >>
    ELSE IF Abs(Head(sorted).sentiment) > Abs(h.sentiment)
         THEN << Head(sorted) >> \o InsertByAbsUnstable(Tail(sorted), h)
         ELSE << h >> \o sorted

RECURSIVE InsertByAbs(_, _)
\* insert h after every item whose |sentiment| is at least as large
InsertByAbs(sorted, h) ==
    IF sorted = <<>> THEN << h >>
    ELSE IF Abs(Head(sorted).sentiment) >= Abs(h.sentiment)
         THEN << Head(sorted) >> \o InsertByAbs(Tail(sorted), h)
         ELSE << h >> \o sorted

RECURSIVE SortByAbs(_)
\* headlines.sort(key=abs(sentiment), reverse=True): stable
SortByAbs(hs) ==
    IF hs = <<>> THEN <<>>
    ELSE InsertByAbs(SortByAbs(SubSeq(hs, 1, Len(hs) - 1)), hs[Len(hs)])

RECURSIVE ScoreLoop(_, _)
\* the loop of lines 93-102: [headlines, raised]; art.get raises on an
\* element that is no object, and headlines keeps what was appended so far
ScoreLoop(arts, acc) ==
    IF arts = <<>> THEN [headlines |-> acc, raised |-> FALSE]
    ELSE IF ~Head(arts).dict THEN [headlines |-> acc, raised |-> TRUE]
    ELSE ScoreLoop(Tail(arts),
                   Append(acc, [title |-> Head(arts).title,
                                url |-> Head(arts).url,
                                sentiment |-> polarity_scores(Head(arts).title)]))

\* an exception is raised inside the try block of lines 83-106
NewsFailed(out) ==
    \/ out.kind \in {"request_error", "http_status"}
    \/ ScoreLoop(out.articles, <<>>).raised

\* lines 82-112: the value of headlines after the try block
NewsStep(out) ==
    LET scored == ScoreLoop(out.articles, <<>>)
        sorted == SortByAbs(scored.headlines)
    IN IF out.kind \in {"request_error", "http_status"} THEN <<>>
       ELSE IF scored.raised THEN scored.headlines
       ELSE SubSeq(sorted, 1, Min(TopK, Len(sorted)))

(***************************************************************************)
(* Generation step (lines 144-162).  The text of the provider is a         *)
(* sequence of tokens: braces, words, and "key": value pairs.              *)
(***************************************************************************)
LBrace == [t |-> "{", k |-> "", v |-> "", str |-> TRUE]
RBrace == [t |-> "}", k |-> "", v |-> "", str |-> TRUE]
Word == [t |-> "word", k |-> "", v |-> "", str |-> TRUE]
\* a markdown code fence
Fence == [t |-> "fence", k |-> "", v |-> "", str |-> TRUE]
Space == [t |-> " ", k |-> "", v |-> "", str |-> TRUE]
\* "k": "v"
Pair(k, v) == [t |-> "pair", k |-> k, v |-> v, str |-> TRUE]
\* "k": null
PairNull(k) == [t |-> "pair", k |-> k, v |-> "null", str |-> FALSE]

GenTexts ==
    { <<>>,
      << Word, Word >>,
      << LBrace, Word, RBrace >>,
      << Space, Fence, LBrace, Pair("pulse", "Bullish"),
         Pair("explanation", "e1"), RBrace, Fence >>,
      << LBrace, Pair("pulse", "bearish"), RBrace, Word >>,
      << LBrace, Pair("explanation", "e2"), RBrace >>,
      << LBrace, Pair("pulse", "strong buy"), Pair("explanation", "e1"),
         RBrace >>,
      << LBrace, PairNull("pulse"), Pair("explanation", "e1"), RBrace >>,
      << LBrace, Pair("pulse", "Bullish"),
         Pair("explanation", "Could not parse LLM response as JSON."),
         RBrace >> }

\* generate_content_async raises, or returns a response with this text
GenOutcomes ==
    { [kind |-> "raise", text |-> <<>>] }
    \cup { [kind |-> "text", text |-> x] : x \in GenTexts }

\* str.lower()
Lower(s) ==
    CASE s = "Bullish" -> "bullish"
      [] s = "BEARISH" -> "bearish"
      [] OTHER -> s

RECURSIVE Strip(_)
\* str.strip(): leading and trailing white space removed
Strip(x) ==
    IF x = <<>> THEN x
    ELSE IF Head(x) = Space THEN Strip(Tail(x))
    ELSE IF x[Len(x)] = Space THEN Strip(SubSeq(x, 1, Len(x) - 1))
    ELSE x

\* re.search with DOTALL: from the first opening brace to the last closing brace
\* after it; <<>> when there is no such span
JsonSpan(x) ==
    LET opens == { i \in 1..Len(x) : x[i] = LBrace }
        first == CHOOSE i \in opens : \A j \in opens : i <= j
        closes == { i \in 1..Len(x) : x[i] = RBrace /\ i > first }
        last == CHOOSE i \in closes : \A j \in closes : j <= i
    IN IF opens = {} THEN <<>>
       ELSE IF closes = {} THEN <<>>
       ELSE SubSeq(x, first, last)

\* json.loads accepts the span: nothing but pairs between the braces
JsonValid(span) ==
    /\ Len(span) >= 2
    /\ \A i \in 2..(Len(span) - 1) : span[i].t = "pair"

\* dict.get(key, default) on the parsed object: [v, str]; of a key given
\* twice the last value counts
JsonGet(span, key, default) ==
    LET hits == { i \in 2..(Len(span) - 1) : span[i].k = key }
        i == CHOOSE j \in hits : \A h \in hits : h <= j
    IN IF hits = {} THEN [v |-> default, str |-> TRUE]
       ELSE [v |-> span[i].v, str |-> span[i].str]

\* a try block that reads the explanation with llm_json["explanation"]
\* after it has assigned the pulse
GenTryRequireExplanation(out) ==
    LET span == JsonSpan(Strip(out.text))
        p == JsonGet(span, "pulse", "neutral")
        e == JsonGet(span, "explanation", "")
    IN IF out.kind = "raise"
       THEN [exc |-> "api error", pulse |-> "neutral",
             explanation |-> "Could not determine pulse."]
       ELSE IF span = <<>>
       THEN [exc |-> "none", pulse |-> "neutral",
             explanation |-> "Could not parse LLM response as JSON."]
       ELSE IF ~JsonValid(span)
       THEN [exc |-> "JSONDecodeError", pulse |-> "neutral",
             explanation |-> "Could not determine pulse."]
       ELSE IF ~p.str
       THEN [exc |-> "AttributeError", pulse |-> "neutral",
             explanation |-> "Could not determine pulse."]
       ELSE IF e.v = ""
       THEN [exc |-> "KeyError", pulse |-> Lower(p.v),
             explanation |-> "Could not determine pulse."]
       ELSE [exc |-> "none", pulse |-> Lower(p.v), explanation |-> e.v]

\* the body of the try block, lines 147-159: the exception it raises
\* ("none" when it completes) and the values pulse and explanation have then
GenTry(out) ==
    LET span == JsonSpan(Strip(out.text))
        p == JsonGet(span, "pulse", "neutral")
        e == JsonGet(span, "explanation", "No explanation provided.")
    IN IF out.kind = "raise"
       THEN [exc |-> "api error", pulse |-> "neutral",
             explanation |-> "Could not determine pulse."]
       ELSE IF span = <<>>
       THEN [exc |-> "none", pulse |-> "neutral",
             explanation |-> "Could not parse LLM response as JSON."]
       ELSE IF ~JsonValid(span)
       THEN [exc |-> "JSONDecodeError", pulse |-> "neutral",
             explanation |-> "Could not determine pulse."]
       ELSE IF ~p.str
       THEN [exc |-> "AttributeError", pulse |-> "neutral",
             explanation |-> "Could not determine pulse."]
       ELSE [exc |-> "none", pulse |-> Lower(p.v), explanation |-> e.v]

\* f"Could not get explanation from LLM: {e}"
LlmErrorMessage(exc) ==
    CASE exc = "api error" -> "Could not get explanation from LLM: api error"
      [] exc = "JSONDecodeError" ->
             "Could not get explanation from LLM: JSONDecodeError"
      [] OTHER -> "Could not get explanation from LLM: AttributeError"

\* a handler that catches the errors of the call only
GenExceptNarrow(res) ==
    IF res.exc = "none"
    THEN [raised |-> FALSE, pulse |-> res.pulse,
          explanation |-> res.explanation]
    ELSE [raised |-> res.exc # "api error", pulse |-> res.pulse,
          explanation |-> LlmErrorMessage(res.exc)]

\* `except Exception as e` of lines 161-162: every exception is caught, and
\* only the explanation is replaced
GenExcept(res) ==
    IF res.exc = "none"
    THEN [raised |-> FALSE, pulse |-> res.pulse,
          explanation |-> res.explanation]
    ELSE [raised |-> FALSE, pulse |-> res.pulse,
          explanation |-> LlmErrorMessage(res.exc)]

\* lines 144-162: pulse and explanation after the try block
Interpret(out) == GenExcept(GenTry(out))

(***************************************************************************)
(* The requests                                                            *)
(***************************************************************************)
NoMomentum ==
    [ok |-> FALSE, returns |-> <<>>, simple_score |-> 0, advanced_score |-> 0]

\* no answer of the generation provider yet
NoGen == [kind |-> "", text |-> <<>>]

\* a slot with no request in it.  replaced is history: the store of the
\* request found an unexpired entry under its key; articles is the list the
\* news provider returned, gen the answer the generation provider gave
Idle ==
    [pc |-> "idle", raw |-> <<>>, ticker |-> <<>>, hit |-> FALSE,
     replaced |-> FALSE, gen |-> NoGen, articles |-> <<>>, made |-> {}, price |-> "", news |-> "", closes |-> <<>>, momentum |-> NoMomentum,
     headlines |-> <<>>, pulse |-> "neutral",
     explanation |-> "Could not determine pulse.",
     status |-> 0, detail |-> "", body |-> None]

\* the dict of lines 164-175 (as_of, the date of the day, is left out)
Result(q) ==
    [ticker |-> q.ticker,
     momentum |-> [returns |-> q.momentum.returns,
                   simple_score |-> q.momentum.simple_score,
                   advanced_score |-> q.momentum.advanced_score],
     news |-> q.headlines,
     pulse |-> q.pulse,
     llm_explanation |-> q.explanation]

\* history, by key: the time of the last return of a computed result (-1:
\* none yet), the other keys read or stored in the cache since, and the
\* providers called for the key since
NotServed == [at |-> -1, others |-> {}, since |-> {}]

\* key j is read or stored in the cache
Touched(s, j) ==
    [k \in Keys |->
        IF k # j /\ s[k].at >= 0
        THEN [s[k] EXCEPT !.others = @ \cup {j}] ELSE s[k]]

\* provider p is called for key j
Called(s, j, p) ==
    [s EXCEPT ![j] = IF @.at >= 0 THEN [@ EXCEPT !.since = @ \cup {p}] ELSE @]

\* the module is imported in a fully configured environment: the service
\* accepts requests, the cache is empty
Init ==
    /\ env = Credentials
    /\ now = 0
    /\ cache = <<>>
    /\ req = [r \in Reqs |-> Idle]
    /\ cur = 0
    /\ started = 0
    /\ served = [k \in Keys |-> NotServed]

\* the module is imported in any environment: lines 22-25 raise nothing
\* when a variable is missing, so the service accepts requests all the same
InitAnyEnv ==
    /\ env \in SUBSET Credentials
    /\ now = 0
    /\ cache = <<>>
    /\ req = [r \in Reqs |-> Idle]
    /\ cur = 0
    /\ started = 0
    /\ served = [k \in Keys |-> NotServed]

\* the clock advances.  The code reads the clock in the cache operations
\* only (lines 34, 35 and 178), so a coroutine that is running sees it move
\* between two reads only from line 34 to line 35; the time that passes
\* elsewhere is the time that passes while it is suspended.
Tick ==
    /\ \A r \in Reqs : cur = r => req[r].pc = "read"
    /\ now + TickStep <= MaxTime
    /\ now' = now + TickStep
    /\ UNCHANGED <<env, cache, req, cur, started, served>>

\* the slot holds no request
Free(r) == req[r].pc = "idle"

\* lines 31-34: a request arrives (in the first free slot), the ticker is upper-cased and looked up
CacheCheck(r, raw, limit) ==
    /\ cur = 0
    /\ Free(r)
    /\ \A q \in 1..(r - 1) : ~Free(q)
    /\ started < limit
    /\ LET k == Upper(raw)
           hit == CacheContains(cache, k, now)
       IN req' = [req EXCEPT ![r] =
                    [Idle EXCEPT !.raw = raw, !.ticker = k, !.hit = hit,
                                 !.pc = IF hit THEN "read" ELSE "price"]]
    /\ cur' = r
    /\ started' = started + 1
    /\ UNCHANGED <<env, now, cache, served>>

\* line 35: return cache[ticker]; the KeyError of an entry that is gone or
\* expired is not handled, the server answers 500
CacheHit(r) ==
    /\ cur = r
    /\ req[r].pc = "read"
    /\ LET g == CacheGetItem(cache, req[r].ticker, now)
       IN /\ cache' = g.cache
          /\ req' = [req EXCEPT ![r] =
                IF g.found
                THEN [@ EXCEPT !.pc = "done", !.status = 200, !.body = g.value]
                ELSE [@ EXCEPT !.pc = "done", !.status = 500,
                               !.detail = "KeyError"]]
    /\ served' = Touched(served, req[r].ticker)
    /\ UNCHANGED <<env, now, cur, started>>

\* lines 38-41: the price request is sent, the coroutine is suspended
CallPrice(r) ==
    /\ cur = r
    /\ req[r].pc = "price"
    /\ req' = [req EXCEPT ![r].pc = "await_price",
                          ![r].made = @ \cup {"price"}]
    /\ served' = Called(served, req[r].ticker, "price")
    /\ cur' = 0
    /\ UNCHANGED <<env, now, cache, started>>

\* lines 41-49: the answer of the price provider
FetchPrice(r, outs) ==
    /\ cur = 0
    /\ req[r].pc = "await_price"
    /\ \E out \in outs :
          IF PriceStatus(out) = 200
          THEN /\ req' = [req EXCEPT ![r].pc = "momentum",
                                     ![r].price = out.kind,
                                     ![r].closes = SortDesc(out.series)]
               /\ cur' = r
          ELSE /\ req' = [req EXCEPT ![r].pc = "done",
                                     ![r].price = out.kind,
                                     ![r].status = PriceStatus(out),
                                     ![r].detail = "stock data"]
               /\ cur' = r
    /\ UNCHANGED <<env, now, cache, started, served>>

\* lines 51-78; the IndexError of an empty frame is not handled (500)
ComputeMomentum(r) ==
    /\ cur = r
    /\ req[r].pc = "momentum"
    /\ LET m == Momentum(req[r].closes)
       IN IF m.ok
          THEN /\ req' = [req EXCEPT ![r].pc = "news", ![r].momentum = m]
               /\ cur' = r
          ELSE /\ req' = [req EXCEPT ![r].pc = "done", ![r].status = 500,
                                     ![r].detail = "IndexError"]
               /\ cur' = r
    /\ UNCHANGED <<env, now, cache, started, served>>

\* lines 82-86: the news request is sent, the coroutine is suspended
CallNews(r) ==
    /\ cur = r
    /\ req[r].pc = "news"
    /\ req' = [req EXCEPT ![r].pc = "await_news",
                          ![r].made = @ \cup {"news"}]
    /\ served' = Called(served, req[r].ticker, "news")
    /\ cur' = 0
    /\ UNCHANGED <<env, now, cache, started>>

\* a handler that sends the news request again when the news step fails
FetchNewsRetry(r, outs) ==
    /\ cur = 0
    /\ req[r].pc = "await_news"
    /\ \E out \in outs :
          req' = [req EXCEPT ![r].pc = IF NewsFailed(out) THEN "news"
                                       ELSE "prompt",
                             ![r].news = IF NewsFailed(out) THEN "failed"
                                         ELSE "ok",
                             ![r].headlines = NewsStep(out)]
    /\ cur' = r
    /\ UNCHANGED <<env, now, cache, started, served>>

\* lines 86-112: the answer of the news provider, scored and ranked
FetchNews(r, outs) ==
    /\ cur = 0
    /\ req[r].pc = "await_news"
    /\ \E out \in outs :
          req' = [req EXCEPT ![r].pc = "prompt",
                             ![r].articles = out.articles,
                             ![r].news = IF NewsFailed(out) THEN "failed"
                                         ELSE "ok",
                             ![r].headlines = NewsStep(out)]
    /\ cur' = r
    /\ UNCHANGED <<env, now, cache, started, served>>

\* lines 116-148: the prompt is built and the generation request is sent
BuildPrompt(r) ==
    /\ cur = r
    /\ req[r].pc = "prompt"
    /\ req' = [req EXCEPT ![r].pc = "await_generation",
                          ![r].made = @ \cup {"generation"}]
    /\ served' = Called(served, req[r].ticker, "generation")
    /\ cur' = 0
    /\ UNCHANGED <<env, now, cache, started>>

\* lines 148-162: the answer of the generation provider is interpreted
Generate(r, outs) ==
    /\ cur = 0
    /\ req[r].pc = "await_generation"
    /\ \E out \in outs :
          LET v == Interpret(out)
          IN IF v.raised
             THEN /\ req' = [req EXCEPT ![r].pc = "done", ![r].status = 500,
                                        ![r].gen = out,
                                        ![r].detail = "generation"]
                  /\ cur' = r
             ELSE /\ req' = [req EXCEPT ![r].pc = "store",
                                        ![r].gen = out,
                                        ![r].pulse = v.pulse,
                                        ![r].explanation = v.explanation]
                  /\ cur' = r
    /\ UNCHANGED <<env, now, cache, started, served>>

\* lines 164-179: the result is assembled, stored and returned
CacheStore(r) ==
    /\ cur = r
    /\ req[r].pc = "store"
    /\ cache' = CacheSetItem(cache, req[r].ticker, Result(req[r]), now)
    /\ req' = [req EXCEPT ![r].pc = "done", ![r].status = 200,
                          ![r].body = Result(req[r]),
                          ![r].replaced =
                              CacheContains(cache, req[r].ticker, now)]
    /\ served' = [Touched(served, req[r].ticker) EXCEPT
                    ![req[r].ticker] = [at |-> now, others |-> {}, since |-> {}]]
    /\ UNCHANGED <<env, now, cur, started>>

\* the response is sent and the coroutine ends
Respond(r) ==
    /\ cur = r
    /\ req[r].pc = "done"
    /\ req' = [req EXCEPT ![r] = Idle]
    /\ cur' = 0
    /\ UNCHANGED <<env, now, cache, started, served>>


\* the clients of Spec ask for one ticker, in either spelling
OneTickerInputs == { t \in TickerInputs : Upper(t) = <<"A", "B">> }

\* one request at a time for one ticker, every answer of every provider
Next ==
    \/ Tick
    \/ \E raw \in OneTickerInputs : CacheCheck(1, raw, MaxRequests)
    \/ CacheHit(1)
    \/ CallPrice(1)
    \/ FetchPrice(1, PriceOutcomes)
    \/ ComputeMomentum(1)
    \/ CallNews(1)
    \/ FetchNews(1, NewsOutcomes)
    \/ BuildPrompt(1)
    \/ Generate(1, GenOutcomes)
    \/ CacheStore(1)
    \/ Respond(1)

Spec == Init /\ [][Next]_vars

\* the same service started in any environment
SpecAnyEnv == InitAnyEnv /\ [][Next]_vars

\* the answers of the providers under load: every failure of the price
\* provider and one series, no news, two verdicts
LoadPriceOutcomes ==
    { out \in PriceOutcomes : out.kind = "ok" => Cardinality(out.series) = 2 }
LoadNewsOutcomes ==
    { out \in NewsOutcomes : out.kind = "request_error" }
LoadGenOutcomes ==
    { out \in GenOutcomes : out.kind = "raise" \/ out.text = << Word, Word >> }

\* requests in flight together
NextLoad ==
    \/ Tick
    \/ \E r \in Reqs : \E raw \in TickerInputs :
          CacheCheck(r, raw, MaxLoadRequests)
    \/ \E r \in Reqs : CacheHit(r)
    \/ \E r \in Reqs : CallPrice(r)
    \/ \E r \in Reqs : FetchPrice(r, LoadPriceOutcomes)
    \/ \E r \in Reqs : ComputeMomentum(r)
    \/ \E r \in Reqs : CallNews(r)
    \/ \E r \in Reqs : FetchNews(r, LoadNewsOutcomes)
    \/ \E r \in Reqs : BuildPrompt(r)
    \/ \E r \in Reqs : Generate(r, LoadGenOutcomes)
    \/ \E r \in Reqs : CacheStore(r)
    \/ \E r \in Reqs : Respond(r)

SpecLoad == Init /\ [][NextLoad]_vars

(***************************************************************************)
(* Properties                                                              *)
(***************************************************************************)
Done(r) == req[r].pc = "done"

\* the request of slot r went through the pipeline and returned its result
Computed(r) == Done(r) /\ req[r].status = 200 /\ ~req[r].hit

\* C1: a request whose price step fails ends in an error response, has made
\* no news and no generation call, and the step that fails leaves the cache
\* exactly as it was.
C1_PriceFailureAborts ==
    /\ [](\A r \in Reqs :
            req[r].price \notin {"", "ok"} =>
               /\ Done(r)
               /\ req[r].status >= 400
               /\ req[r].body = None
               /\ req[r].made = {"price"})
    /\ [][\A r \in Reqs :
            (req[r].pc = "await_price" /\ req'[r].price \notin {"", "ok"})
               => cache' = cache]_vars

\* a request failed at the price step while the cache held an entry
C1_Witness ==
    \E r \in Reqs :
        /\ Done(r)
        /\ req[r].price = "http_status"
        /\ cache # <<>>

\* C2: the status of a failed price step tells its cause: a body without
\* the series key gives 404, a network failure 504, any other failure 500.
C2_StatusByCause ==
    \A r \in Reqs :
        (Done(r) /\ req[r].price \notin {"", "ok"}) =>
            req[r].status = CASE req[r].price = "no_series" -> 404
                              [] req[r].price = "request_error" -> 504
                              [] OTHER -> 500

\* C3: after a successful price step, a failure anywhere in the news step
\* leaves the returned result with news = [].
C3_NewsFailureIsNoNews ==
    \A r \in Reqs :
        (Computed(r) /\ req[r].news = "failed") => req[r].body.news = <<>>

\* C4: once the news call has been made (price and momentum succeeded), the
\* request ends with status 200 whatever the news and the generation
\* providers answer.
C4_SoftFailuresAbsorbed ==
    \A r \in Reqs :
        (Done(r) /\ "news" \in req[r].made) => req[r].status = 200

\* a request returned 200 although the news step and the generation call
\* both failed
C4_Witness ==
    \E r \in Reqs :
        /\ Computed(r)
        /\ req[r].news = "failed"
        /\ req[r].explanation = "Could not get explanation from LLM: api error"

\* the lower-case and upper-case forms of the letters
CasePairs == { <<"a", "A">>, <<"b", "B">>, <<"c", "C">>, <<"d", "D">> }

\* key is raw with every letter in upper case
IsUpperOf(key, raw) ==
    /\ Len(key) = Len(raw)
    /\ \A i \in 1..Len(key) :
          /\ key[i] \in UpperLetters
          /\ (key[i] = raw[i] \/ <<raw[i], key[i]>> \in CasePairs)

\* C5: a request that completes the pipeline stores its result before it
\* returns: under the upper-cased ticker, with expiry store time + ttl, the
\* value stored being the value returned and its ticker field the key; a
\* key has one entry, and a lookup finds the entry whatever the letter case
\* of the ticker requested.
C5_StoredUnderUpperKey ==
    /\ [](\A i, j \in 1..Len(cache) :
            /\ cache[i].value.ticker = cache[i].key
            /\ \A n \in 1..Len(cache[i].key) : cache[i].key[n] \in UpperLetters
            /\ (i # j => cache[i].key # cache[j].key))
    /\ [][\A r \in Reqs :
            (~Done(r) /\ req'[r].pc = "done" /\ req'[r].status = 200
                /\ ~req'[r].hit)
            => \E i \in 1..Len(cache') :
                  /\ IsUpperOf(cache'[i].key, req'[r].raw)
                  /\ cache'[i].value = req'[r].body
                  /\ cache'[i].expires = now + ttl]_vars
    /\ [][\A r \in Reqs :
            (Free(r) /\ ~Free(r)')
            => (req'[r].hit <=>
                  \E i \in 1..Len(cache) :
                     /\ IsUpperOf(cache[i].key, req'[r].raw)
                     /\ now < cache[i].expires)]_vars

\* a request for "ab" returned a degraded result that is in the cache under
\* "AB"
C5_Witness ==
    \E r \in Reqs : \E i \in 1..Len(cache) :
        /\ Computed(r)
        /\ req[r].raw = <<"a", "b">>
        /\ req[r].news = "failed"
        /\ cache[i].key = <<"A", "B">>
        /\ cache[i].value = req[r].body
        /\ cache[i].expires = now + ttl

\* C6: a request that finds an unexpired entry at the cache check returns
\* that cached result, makes no provider call, and leaves the entry as it
\* is.
C6_HitReturnsCached ==
    \A r \in Reqs :
        (Done(r) /\ req[r].hit) =>
            /\ req[r].status = 200
            /\ req[r].made = {}
            /\ \E i \in 1..Len(cache) :
                  cache[i].key = req[r].ticker /\ cache[i].value = req[r].body

\* the request of slot r has just passed or failed the cache check, at a
\* time less than ttl after a computed result for its key was returned
SecondRequest(r) ==
    /\ req[r].pc \in {"read", "price"}
    /\ served[req[r].ticker].at >= 0
    /\ now < served[req[r].ticker].at + ttl

\* no other request for the ticker of slot r is in flight
Alone(r) ==
    \A q \in Reqs \ {r} :
        req[q].ticker = req[r].ticker => req[q].pc \in {"idle", "done"}

C8_ExpiredEntryIsMiss ==
    \A r \in Reqs : Done(r) => req[r].detail # "KeyError"

\* C9: the cache never holds more than maxsize entries; a store into a full
\* cache removes an entry.
C9_CacheBounded ==
    /\ Len(cache) <= maxsize
    /\ Cardinality(CacheKeys(cache)) = Len(cache)

\* results were stored for more than maxsize tickers before any could
\* expire, and the cache is full
C9_Witness ==
    /\ Cardinality({ k \in Keys : served[k].at >= 0 }) > maxsize
    /\ now < ttl
    /\ Len(cache) = maxsize

\* C10: the pulse of every result returned or cached is one of bullish,
\* bearish, neutral.
C10_PulseInDomain ==
    /\ \A r \in Reqs :
          (Done(r) /\ req[r].status = 200) =>
              req[r].body.pulse \in {"bullish", "bearish", "neutral"}
    /\ \A i \in 1..Len(cache) :
          cache[i].value.pulse \in {"bullish", "bearish", "neutral"}

\* C11: with a credential missing from the environment the service reports
\* a configuration error at startup: no request is ever accepted that calls
\* a provider with a credential that is None.
C11_NoCallWithoutCredential ==
    \A r \in Reqs : \A p \in req[r].made : ApiKey(p) # None

\* what the cache holds under key k: the values and expiries (at most one)
EntryOf(c, k) ==
    { [value |-> c[i].value, expires |-> c[i].expires] :
        i \in { j \in 1..Len(c) : c[j].key = k } }

\* C12: requests for the same ticker that miss together each run the whole
\* pipeline and return their own result, and the cache holds under the
\* ticker the result of the request that stored last, with the expiry of
\* that store: every store replaces the entry, and nothing but a store for
\* the key gives the key an entry or changes it.
C12_LastStoreWins ==
    /\ [](\A r \in Reqs :
            Computed(r) =>
               /\ req[r].made = Providers
               /\ req[r].body = Result(req[r])
               /\ EntryOf(cache, req[r].ticker) =
                     { [value |-> req[r].body, expires |-> now + ttl] })
    /\ [][\A k \in Keys :
            (EntryOf(cache', k) # EntryOf(cache, k) /\ EntryOf(cache', k) # {})
            => \E r \in Reqs :
                  /\ req[r].pc = "store"
                  /\ req'[r].pc = "done"
                  /\ req[r].ticker = k]_vars

\* a request that missed stored its result over the unexpired entry that a
\* request for the same ticker had stored while it was suspended
C12_Witness ==
    \E r \in Reqs :
        /\ Computed(r)
        /\ req[r].replaced
        /\ ~req[r].hit
        /\ req[r].made = Providers

\* the position of a step in the handler
Stage(pc) ==
    CASE pc = "idle" -> 0
      [] pc = "read" -> 1
      [] pc = "price" -> 1
      [] pc = "await_price" -> 2
      [] pc = "momentum" -> 3
      [] pc = "news" -> 4
      [] pc = "await_news" -> 5
      [] pc = "prompt" -> 6
      [] pc = "await_generation" -> 7
      [] pc = "store" -> 8
      [] pc = "done" -> 9

\* the calls a request has made when it calls provider p
CallsBefore(p) ==
    CASE p = "price" -> {}
      [] p = "news" -> {"price"}
      [] p = "generation" -> {"price", "news"}

\* C13: within a request the steps happen in one order, each at most once:
\* every step moves the request forward; a provider is called once, after
\* exactly the providers before it; the news call follows a successful
\* price step and the momentum, the generation call a finished news step,
\* and the store a finished generation step.
C13_FixedOrder ==
    [][\A r \in Reqs :
          LET a == req[r]
              b == req'[r]
          IN (b # a /\ b.pc # "idle") =>
                /\ Stage(b.pc) > Stage(a.pc)
                /\ b.made # a.made =>
                      \E p \in Providers :
                         /\ a.made = CallsBefore(p)
                         /\ b.made = a.made \cup {p}
                /\ "news" \in b.made \ a.made =>
                      a.price = "ok" /\ a.momentum.ok
                /\ "generation" \in b.made \ a.made => a.news # ""
                /\ cache' # cache /\ ~a.hit =>
                      /\ a.pc = "store"
                      /\ a.made = Providers
                      /\ b.status = 200]_vars

\* a request made the three calls, its news step having succeeded with
\* articles, and stored its result
C13_Witness ==
    \E r \in Reqs :
        /\ Computed(r)
        /\ req[r].made = Providers
        /\ req[r].news = "ok"
        /\ req[r].headlines # <<>>
        /\ EntryOf(cache, req[r].ticker) # {}

\* the explanations of line 162, by cause
LlmErrorMessages ==
    { LlmErrorMessage(e) : e \in {"api error", "JSONDecodeError",
                                  "AttributeError"} }

\* C14: a text of the generation provider in which no span in braces is
\* found, or whose span is not JSON, gives pulse neutral and the explanation
\* "Could not parse LLM response as JSON."; the explanation "Could not get
\* explanation from LLM: <cause>" is given only when the call itself raises.
C14_ParseFailureMessage ==
    \A r \in Reqs :
        Computed(r) =>
            LET span == JsonSpan(Strip(req[r].gen.text))
            IN /\ (req[r].gen.kind = "text"
                     /\ (span = <<>> \/ ~JsonValid(span)))
                  => /\ req[r].body.pulse = "neutral"
                     /\ req[r].body.llm_explanation =
                           "Could not parse LLM response as JSON."
               /\ req[r].body.llm_explanation \in LlmErrorMessages
                  => req[r].gen.kind = "raise"

\* the percentage change of close a against close b, in hundredths
PercentChange(a, b) == RoundHalfEven(10000 * (a - b), b)

\* C15: for a series of N >= 2 closes, most recent first, the returns are
\* min(N-1, 5) numbers, the i-th being the change of day i against the day
\* before it, (close[i] - close[i+1]) / close[i+1] * 100 rounded to 2
\* decimals.
C15_ReturnsFormula ==
    \A r \in Reqs :
        LET c == req[r].closes
        IN (req[r].momentum.ok /\ Len(c) >= 2) =>
              req[r].momentum.returns =
                 [i \in 1..Min(Len(c) - 1, 5) |-> PercentChange(c[i], c[i + 1])]

\* C16: for a series of N >= 2 closes the advanced score is the deviation
\* of the most recent close from the mean of the most recent min(20, N)
\* closes, ((latest / sma) - 1) * 100 rounded to 2 decimals, for short and
\* for long series.
C16_AdvancedScore ==
    \A r \in Reqs :
        LET c == req[r].closes
            n == Min(SmaWindow, Len(c))
            total == SumSeq(SubSeq(c, 1, n))
        IN (req[r].momentum.ok /\ Len(c) >= 2) =>
              req[r].momentum.advanced_score =
                 RoundHalfEven(10000 * (c[1] * n - total), total)

\* C17: a series of one daily record does not make the request fail: the
\* momentum is returns = [], simple score 0.0, advanced score 0.0, and the
\* request goes on to the news step.
C17_OneRecordSeries ==
    \A r \in Reqs :
        (Len(req[r].closes) = 1 /\ Stage(req[r].pc) > Stage("momentum")) =>
            /\ req[r].momentum =
                  [ok |-> TRUE, returns |-> <<>>, simple_score |-> 0,
                   advanced_score |-> 0]
            /\ req[r].status # 500
            /\ Done(r) => "news" \in req[r].made

\* C18: whatever happened in the news step, the news list of a result
\* returned or cached has at most 5 items and at most as many items as the
\* provider returned.
C18_NewsAtMostFive ==
    /\ \A r \in Reqs :
          Computed(r) =>
              /\ Len(req[r].body.news) <= TopK
              /\ Len(req[r].body.news) <= Len(req[r].articles)
    /\ \A i \in 1..Len(cache) : Len(cache[i].value.news) <= TopK

\* the articles with their scores, in the order of the provider
Scored(arts) ==
    [i \in 1..Len(arts) |->
        [title |-> arts[i].title, url |-> arts[i].url,
         sentiment |-> polarity_scores(arts[i].title)]]

\* item i comes before item j in the descending stable order
Before(hs, i, j) ==
    \/ Abs(hs[i].sentiment) > Abs(hs[j].sentiment)
    \/ Abs(hs[i].sentiment) = Abs(hs[j].sentiment) /\ i < j

\* the first min(n, 5) items of that order
TopByAbs(hs) ==
    [p \in 1..Min(Len(hs), TopK) |->
        hs[CHOOSE j \in 1..Len(hs) :
              Cardinality({ i \in 1..Len(hs) : Before(hs, i, j) }) = p - 1]]

\* C19: when the news step succeeds on n articles, the news list is the
\* first min(n, 5) of the scored articles in descending order of absolute
\* sentiment, articles of equal absolute sentiment keeping the order of the
\* provider.
C19_TopFiveStable ==
    \A r \in Reqs :
        (Computed(r) /\ req[r].news = "ok") =>
            LET l == req[r].body.news
            IN /\ l = TopByAbs(Scored(req[r].articles))
               /\ Len(l) = Min(Len(req[r].articles), TopK)
               /\ \A i \in 1..(Len(l) - 1) :
                     Abs(l[i].sentiment) >= Abs(l[i + 1].sentiment)

\* more than 5 articles were ranked, and the list returned holds a +s and
\* a -s article side by side
C19_Witness ==
    \E r \in Reqs :
        /\ Computed(r)
        /\ req[r].news = "ok"
        /\ Len(req[r].articles) > TopK
        /\ \E i \in 1..(Len(req[r].body.news) - 1) :
              /\ req[r].body.news[i].sentiment # 0
              /\ req[r].body.news[i].sentiment =
                    - req[r].body.news[i + 1].sentiment

\* the explanations the failure paths of lines 159 and 162 give
FailureMessages ==
    {"Could not parse LLM response as JSON."} \cup LlmErrorMessages

\* the text of the provider holds a JSON object
Parsed(g) ==
    /\ g.kind = "text"
    /\ JsonSpan(Strip(g.text)) # <<>>
    /\ JsonValid(JsonSpan(Strip(g.text)))

\* the explanation value of that object, or the default of line 157
ExplanationOf(g) ==
    JsonGet(JsonSpan(Strip(g.text)), "explanation",
            "No explanation provided.").v

\* C20: a verdict is never half-updated: in every result returned or
\* cached, a pulse other than neutral comes with the explanation of the
\* JSON object parsed from the provider's text, and whenever the explanation
\* is one of the failure messages the pulse is neutral.
C20_VerdictNotHalfUpdated ==
    /\ \A r \in Reqs :
          Computed(r) =>
              /\ req[r].body.pulse # "neutral" =>
                    /\ Parsed(req[r].gen)
                    /\ req[r].body.llm_explanation = ExplanationOf(req[r].gen)
              /\ req[r].body.llm_explanation \in FailureMessages =>
                    req[r].body.pulse = "neutral"
    /\ \A i \in 1..Len(cache) :
          cache[i].value.llm_explanation \in FailureMessages =>
              cache[i].value.pulse = "neutral"

\* C20 as amended: a pulse other than neutral comes with the explanation
\* of the parsed object, and whenever the interpret step fails (the call
\* raises, no span, a span that is not JSON, a pulse that is no string) the
\* pulse is neutral and the explanation a failure message; so a failure
\* message next to another pulse is the explanation the provider wrote.
C20_FailureLeavesNeutral ==
    \A r \in Reqs :
        Computed(r) =>
            /\ req[r].body.pulse # "neutral" =>
                  /\ Parsed(req[r].gen)
                  /\ req[r].body.llm_explanation = ExplanationOf(req[r].gen)
            /\ (\/ ~Parsed(req[r].gen)
                \/ ~JsonGet(JsonSpan(Strip(req[r].gen.text)), "pulse",
                            "neutral").str)
               => /\ req[r].body.pulse = "neutral"
                  /\ req[r].body.llm_explanation \in FailureMessages
            /\ \E i \in 1..Len(cache) : cache[i].value = req[r].body

\* the interpret step failed after the object was parsed (its pulse is
\* null): the result has the failure explanation and the neutral pulse
C20_Witness ==
    \E r \in Reqs :
        /\ Computed(r)
        /\ Parsed(req[r].gen)
        /\ req[r].body.llm_explanation =
              "Could not get explanation from LLM: AttributeError"
        /\ req[r].body.pulse = "neutral"

====
